---- MODULE Spec2Model ----
(***************************************************************************)
(* Model of the fio package: the SettingsINI store (an .ini-like file of   *)
(* headers and name/value pairs) and the SpreadsheetDelim store (a table   *)
(* of delimiter separated cells), with their Load/Save/Add/Set/Get         *)
(* methods and the ReadBufferedLine helper they read files with.           *)
(*                                                                         *)
(* A Go string is a sequence of one-character strings, so that trimming,   *)
(* splitting and formatting are computed character by character.  A Go     *)
(* index i is the TLA+ index i+1.                                          *)
(***************************************************************************)
EXTENDS Integers, Sequences, FiniteSets, TLC

VARIABLES
    sd,     \* the SpreadsheetDelim instance: [Filename, delimeter, Data]
    ini,    \* the SettingsINI instance: [Filename, Headers]
    fs,     \* the files on disk: name -> [content, by, table]
    last,   \* the last call made: [op, args, err, out, was, io], io the disk failure met;
            \* for Load and Save also [file, opened, closes]: the name given to
            \* os.Open/os.Create, whether it gave a handle, the file.Close calls made
    rd      \* a scan loop reading a stream: [content, pos, buffer, lines, eof, err, pc]

vars == <<sd, ini, fs, last, rd>>

(***************************************************************************)
(* Bounds of the model.                                                    *)
(***************************************************************************)
MaxRow == 1        \* largest row index passed to Set/Get of the table
MaxCol == 1        \* largest column index passed to Set/Get of the table
MaxSkip == 1       \* largest skipCols/skipRows passed to SpreadsheetDelim.Load
MaxDataRows == 3   \* rows a table may reach through Load (Load appends)
ReaderSize == 3    \* bytes bufio.Reader holds, i.e. the longest ReadLine fragment
MaxLines == 3      \* lines of a file that was not written by Save
MaxStream == 5     \* bytes of a stream read line by line

Rows == -1 .. MaxRow
Cols == -1 .. MaxCol
CellValues == {<<>>, <<"a">>}

NL == "\n"
CR == "\r"

(***************************************************************************)
(* Helpers on sequences.                                                   *)
(***************************************************************************)
SetMin(S) == CHOOSE x \in S : \A y \in S : x <= y

RECURSIVE Flatten(_)
Flatten(ss) == IF ss = <<>> THEN <<>> ELSE Head(ss) \o Flatten(Tail(ss))

Repeat(x, n) == [i \in 1 .. n |-> x]

Last(s) == s[Len(s)]

\* strings.Index(s, sep) + 1, or 0 when sep does not occur in s.
Index(s, sep) ==
    LET I == {i \in 1 .. (Len(s) - Len(sep) + 1) : SubSeq(s, i, i + Len(sep) - 1) = sep}
    IN IF I = {} THEN 0 ELSE SetMin(I)

\* strings.Split(s, sep): with an empty sep the string is exploded into its
\* characters, otherwise it is cut at every occurrence of sep, left to right.
RECURSIVE Split(_, _)
Split(s, sep) ==
    IF sep = <<>> THEN [i \in 1 .. Len(s) |-> <<s[i]>>]
    ELSE LET i == Index(s, sep)
         IN IF i = 0 THEN <<s>>
            ELSE <<SubSeq(s, 1, i - 1)>> \o Split(SubSeq(s, i + Len(sep), Len(s)), sep)

\* ReadLine as it would be if a full window that ends in "\r" were handed out
\* whole.
ReadLineKeepsCR(content, pos) ==
    LET rest == SubSeq(content, pos, Len(content))
        window == SubSeq(rest, 1, IF Len(rest) < ReaderSize THEN Len(rest) ELSE ReaderSize)
        nl == Index(window, <<NL>>)
    IN IF rest = <<>>
         THEN [line |-> <<>>, isPrefix |-> FALSE, err |-> "EOF", pos |-> pos]
       ELSE IF nl > 0
         THEN LET drop == IF nl > 1 /\ window[nl - 1] = CR THEN 2 ELSE 1
              IN [line |-> SubSeq(window, 1, nl - drop), isPrefix |-> FALSE,
                  err |-> "nil", pos |-> pos + nl]
       ELSE IF Len(window) >= ReaderSize
         THEN [line |-> window, isPrefix |-> TRUE, err |-> "nil",
               pos |-> pos + Len(window)]
       ELSE [line |-> window, isPrefix |-> FALSE, err |-> "nil", pos |-> pos + Len(window)]

(***************************************************************************)
(* bufio.Reader.ReadLine on the bytes of content from position pos on      *)
(* (1-based): one line without its terminator, or, when no terminator is   *)
(* found within ReaderSize bytes, a fragment with isPrefix set.            *)
(***************************************************************************)
ReadLine(content, pos) ==
    LET rest == SubSeq(content, pos, Len(content))
        window == SubSeq(rest, 1, IF Len(rest) < ReaderSize THEN Len(rest) ELSE ReaderSize)
        nl == Index(window, <<NL>>)
    IN IF rest = <<>>
         THEN [line |-> <<>>, isPrefix |-> FALSE, err |-> "EOF", pos |-> pos]
       ELSE IF nl > 0
         THEN LET drop == IF nl > 1 /\ window[nl - 1] = CR THEN 2 ELSE 1
              IN [line |-> SubSeq(window, 1, nl - drop), isPrefix |-> FALSE,
                  err |-> "nil", pos |-> pos + nl]
       ELSE IF Len(window) >= ReaderSize
         THEN IF Last(window) = CR
                THEN [line |-> SubSeq(window, 1, Len(window) - 1), isPrefix |-> TRUE,
                      err |-> "nil", pos |-> pos + Len(window) - 1]
                ELSE [line |-> window, isPrefix |-> TRUE, err |-> "nil",
                      pos |-> pos + Len(window)]
       ELSE [line |-> window, isPrefix |-> FALSE, err |-> "nil", pos |-> pos + Len(window)]

\* ReadBufferedLine(r, p): p is the buffer so far; returns the buffer, the eof
\* flag and the reader's new position.
RECURSIVE ReadBufferedLine(_, _, _)
ReadBufferedLine(content, pos, p) ==
    LET Collect(r) ==
            IF r.err = "EOF" THEN [buffer |-> p \o r.line, eof |-> TRUE, pos |-> r.pos]
            ELSE IF r.isPrefix THEN ReadBufferedLine(content, r.pos, p \o r.line)
            ELSE [buffer |-> p \o r.line, eof |-> FALSE, pos |-> r.pos]
    IN Collect(ReadLine(content, pos))

\* Number of ReadBufferedLine calls a scan loop makes on content.
RECURSIVE NumReads(_, _)
NumReads(content, pos) ==
    LET r == ReadBufferedLine(content, pos, <<>>)
    IN IF r.eof THEN 1 ELSE 1 + NumReads(content, r.pos)

(***************************************************************************)
(* Filename resolution shared by Load and Save of both stores.             *)
(***************************************************************************)
ResolveName(filename, remembered) == IF filename = "" THEN remembered ELSE filename

(***************************************************************************)
(* SpreadsheetDelim                                                        *)
(***************************************************************************)
NewSpreadsheetDelim == [Filename |-> "", delimeter |-> <<",">>, Data |-> <<>>]

\* Get(row, col): a negative index passes the >= len checks and indexes the
\* slice, which panics.
SDGet(Data, row, col) ==
    IF row >= Len(Data) THEN [val |-> <<>>, found |-> FALSE, panic |-> FALSE]
    ELSE IF row < 0 THEN [val |-> <<>>, found |-> FALSE, panic |-> TRUE]
    ELSE IF col >= Len(Data[row + 1]) THEN [val |-> <<>>, found |-> FALSE, panic |-> FALSE]
    ELSE IF col < 0 THEN [val |-> <<>>, found |-> FALSE, panic |-> TRUE]
    ELSE [val |-> Data[row + 1][col + 1], found |-> TRUE, panic |-> FALSE]

\* Set as it would be if the columns it creates were filled with the value set
\* instead of the empty string.
SDSetFillsWithValue(Data, row, col, value) ==
    LET D1 == IF row >= Len(Data) THEN Data \o Repeat(<<>>, row + 1 - Len(Data)) ELSE Data
    IN IF row < 0 THEN [Data |-> D1, panic |-> TRUE]
       ELSE LET r1 == D1[row + 1]
                r2 == IF col >= Len(r1) THEN r1 \o Repeat(value, col + 1 - Len(r1)) ELSE r1
            IN IF col < 0 THEN [Data |-> D1, panic |-> TRUE]
               ELSE [Data |-> [D1 EXCEPT ![row + 1] = [r2 EXCEPT ![col + 1] = value]],
                     panic |-> FALSE]

\* Set(row, col, value): the table after the call and whether it panicked.
SDSet(Data, row, col, value) ==
    LET D1 == IF row >= Len(Data) THEN Data \o Repeat(<<>>, row + 1 - Len(Data)) ELSE Data
    IN IF row < 0 THEN [Data |-> D1, panic |-> TRUE]
       ELSE LET r1 == D1[row + 1]
                r2 == IF col >= Len(r1) THEN r1 \o Repeat(<<>>, col + 1 - Len(r1)) ELSE r1
            IN IF col < 0 THEN [Data |-> D1, panic |-> TRUE]
               ELSE [Data |-> [D1 EXCEPT ![row + 1] = [r2 EXCEPT ![col + 1] = value]],
                     panic |-> FALSE]

\* The string Save writes for one row: the cells joined by the delimeter, then
\* a newline.
RECURSIVE SDJoin(_, _)
SDJoin(row, delim) ==
    IF row = <<>> THEN <<>>
    ELSE IF Len(row) = 1 THEN row[1]
    ELSE row[1] \o delim \o SDJoin(Tail(row), delim)

SDRowString(row, delim) == SDJoin(row, delim) \o <<NL>>

\* The strings Save passes to file.WriteString, in order.
SDSaveWrites(store) == [i \in 1 .. Len(store.Data) |-> SDRowString(store.Data[i], store.delimeter)]

\* The scan loop as it would be if an empty line were dropped before the rows
\* to skip are counted.
RECURSIVE SDLoadLoopDropsEmptyFirst(_, _, _, _, _, _, _, _)
SDLoadLoopDropsEmptyFirst(content, pos, n, failAt, skipRowCounter, skipCols, skipRows, store) ==
    LET Continue(r, counter, appended) ==
            IF r.eof THEN [Data |-> appended.Data, err |-> "nil", closes |-> 0]
            ELSE SDLoadLoopDropsEmptyFirst(content, r.pos, n + 1, failAt, counter, skipCols,
                                           skipRows, appended)
        Row(r, newData) ==
            IF Len(r.buffer) = 0 THEN Continue(r, skipRowCounter, store)
            ELSE IF skipRowCounter < skipRows THEN Continue(r, skipRowCounter + 1, store)
            ELSE IF Len(newData) <= skipCols THEN Continue(r, skipRowCounter, store)
            ELSE Continue(r, skipRowCounter,
                          [store EXCEPT
                             !.Data = Append(@, SubSeq(newData, skipCols + 1, Len(newData)))])
        Line(r) == Row(r, Split(r.buffer, store.delimeter))
    IN IF n = failAt THEN [Data |-> store.Data, err |-> "Loading", closes |-> 1]
       ELSE Line(ReadBufferedLine(content, pos, <<>>))

\* The scan loop of Load from reader position pos on; n counts the
\* ReadBufferedLine calls made, the call numbered failAt returns a read error.
RECURSIVE SDLoadLoop(_, _, _, _, _, _, _, _)
SDLoadLoop(content, pos, n, failAt, skipRowCounter, skipCols, skipRows, store) ==
    LET skipped == skipRowCounter < skipRows
        counter == IF skipped THEN skipRowCounter + 1 ELSE skipRowCounter
        Appended(r, newData) ==
            IF skipped \/ Len(r.buffer) = 0 \/ Len(newData) <= skipCols
              THEN store
              ELSE [store EXCEPT
                      !.Data = Append(@, SubSeq(newData, skipCols + 1, Len(newData)))]
        Continue(r, appended) ==
            IF r.eof THEN [Data |-> appended.Data, err |-> "nil", closes |-> 0]
            ELSE SDLoadLoop(content, r.pos, n + 1, failAt, counter, skipCols, skipRows,
                            appended)
        Row(r, newData) ==
            IF ~skipped /\ Len(r.buffer) # 0 /\ Len(newData) = 0
              THEN [Data |-> store.Data, err |-> "Parsing", closes |-> 1]
              ELSE Continue(r, Appended(r, newData))
        Line(r) == Row(r, Split(r.buffer, store.delimeter))
    IN IF n = failAt THEN [Data |-> store.Data, err |-> "Loading", closes |-> 1]
       ELSE Line(ReadBufferedLine(content, pos, <<>>))

\* SpreadsheetDelim.Load(filename, skipCols, skipRows) on the files disk.
\* failAt: the read that fails (-1: none); closeFails: file.Close fails.
SDLoad(store, disk, filename, skipCols, skipRows, failAt, closeFails) ==
    LET name == ResolveName(filename, store.Filename)
        named == [store EXCEPT !.Filename = name]
    IN IF filename = "" /\ store.Filename = ""
         THEN [store |-> store, err |-> "InvalidArgument",
               file |-> "", opened |-> FALSE, closes |-> 0]
       ELSE IF name \notin DOMAIN disk
         THEN [store |-> named, err |-> "Loading",
               file |-> name, opened |-> FALSE, closes |-> 0]
       ELSE LET r == SDLoadLoop(disk[name].content, 1, 0, failAt, 0, skipCols, skipRows, named)
            IN [store |-> [named EXCEPT !.Data = r.Data],
                err |-> IF r.err = "nil" /\ closeFails THEN "Loading" ELSE r.err,
                file |-> name, opened |-> TRUE,
                closes |-> IF r.err = "nil" THEN r.closes + 1 ELSE r.closes]

\* Save as it would be if it stored the filename it resolved, as Load does.
SDSaveRemembers(store, disk, filename, failAt, closeFails) ==
    LET name == ResolveName(filename, store.Filename)
        writes == SDSaveWrites(store)
        done == failAt >= Len(writes)
        written == Flatten(SubSeq(writes, 1, IF done THEN Len(writes) ELSE failAt))
    IN IF filename = "" /\ store.Filename = ""
         THEN [store |-> store, disk |-> disk, err |-> "InvalidArgument",
               file |-> "", opened |-> FALSE, closes |-> 0]
       ELSE [store |-> [store EXCEPT !.Filename = name],
             disk |-> [f \in DOMAIN disk \cup {name} |->
                        IF f = name
                          THEN [content |-> written,
                                by |-> IF done THEN "sd" ELSE "partial",
                                table |-> IF done THEN store.Data ELSE <<>>]
                          ELSE disk[f]],
             err |-> IF done /\ ~closeFails THEN "nil" ELSE "Saving",
             file |-> name, opened |-> TRUE, closes |-> 1]

\* SpreadsheetDelim.Save(filename): the first failAt writes succeed, the next
\* one fails (failAt = number of writes: none fails).
SDSave(store, disk, filename, failAt, closeFails) ==
    LET name == ResolveName(filename, store.Filename)
        writes == SDSaveWrites(store)
        done == failAt >= Len(writes)
        written == Flatten(SubSeq(writes, 1, IF done THEN Len(writes) ELSE failAt))
    IN IF filename = "" /\ store.Filename = ""
         THEN [store |-> store, disk |-> disk, err |-> "InvalidArgument",
               file |-> "", opened |-> FALSE, closes |-> 0]
       ELSE [store |-> store,
             disk |-> [f \in DOMAIN disk \cup {name} |->
                        IF f = name
                          THEN [content |-> written,
                                by |-> IF done THEN "sd" ELSE "partial",
                                table |-> IF done THEN store.Data ELSE <<>>]
                          ELSE disk[f]],
             err |-> IF done /\ ~closeFails THEN "nil" ELSE "Saving",
             file |-> name, opened |-> TRUE, closes |-> 1]

(***************************************************************************)
(* Actions of the SpreadsheetDelim store.                                  *)
(***************************************************************************)
SDNewAction ==
    /\ sd' = NewSpreadsheetDelim
    /\ last' = [op |-> "SDNew", args |-> <<>>, err |-> "nil", out |-> <<>>,
                was |-> sd.Filename, io |-> "none"]
    /\ UNCHANGED <<ini, fs, rd>>

\* A Set call with its arguments drawn from RowSet, ColSet and ValueSet.
SDSetOn(RowSet, ColSet, ValueSet) ==
    \E row \in RowSet, col \in ColSet, value \in ValueSet :
      \E r \in {SDSet(sd.Data, row, col, value)} :
           /\ sd' = [sd EXCEPT !.Data = r.Data]
           /\ last' = [op |-> "SDSet", args |-> <<row, col, value>>,
                       err |-> IF r.panic THEN "panic" ELSE "nil", out |-> <<>>,
                       was |-> sd.Filename, io |-> "none"]
           /\ UNCHANGED <<ini, fs, rd>>

SDSetAction == SDSetOn(Rows, Cols, CellValues)

\* The Set calls of the runs that save and load files.
SDSetCell == SDSetOn(0 .. MaxRow, {0}, {<<"a">>})

SDGetAction ==
    \E row \in -1 .. (MaxRow + 1), col \in -1 .. (MaxCol + 1) :
      \E r \in {SDGet(sd.Data, row, col)} :
           /\ last' = [op |-> "SDGet", args |-> <<row, col>>,
                       err |-> IF r.panic THEN "panic" ELSE "nil",
                       out |-> <<r.val, r.found>>, was |-> sd.Filename, io |-> "none"]
           /\ UNCHANGED <<sd, ini, fs, rd>>

\* failAt = number of writes: no write fails; one more: file.Close fails.
SDSaveOn(FileNameSet) ==
    \E filename \in FileNameSet :
      \E failAt \in 0 .. (Len(sd.Data) + 1) :
      \E r \in {SDSave(sd, fs, filename, failAt, failAt = Len(sd.Data) + 1)} :
           /\ sd' = r.store
           /\ fs' = r.disk
           /\ last' = [op |-> "SDSave", args |-> <<filename>>, err |-> r.err,
                       out |-> <<ResolveName(filename, sd.Filename)>>, was |-> sd.Filename,
                       io |-> IF r.err = "InvalidArgument" \/ failAt = Len(sd.Data) THEN "none"
                              ELSE IF failAt > Len(sd.Data) THEN "close" ELSE "write",
                       file |-> r.file, opened |-> r.opened, closes |-> r.closes]
           /\ UNCHANGED <<ini, rd>>

\* failAt = -1: no read fails; failAt = -2: file.Close fails.
SDLoadOn(FileNameSet, SkipColSet, SkipRowSet) ==
    \E filename \in FileNameSet, skipCols \in SkipColSet, skipRows \in SkipRowSet :
      LET name == ResolveName(filename, sd.Filename)
          reads == IF name \in DOMAIN fs THEN NumReads(fs[name].content, 1) ELSE 0
      IN \E failAt \in -2 .. (reads - 1) :
         \E r \in {SDLoad(sd, fs, filename, skipCols, skipRows, failAt, failAt = -2)} :
              /\ Len(r.store.Data) <= MaxDataRows
              /\ sd' = r.store
              /\ last' = [op |-> "SDLoad", args |-> <<filename, skipCols, skipRows>>,
                          err |-> r.err, out |-> <<name>>, was |-> sd.Filename,
                          io |-> IF name \notin DOMAIN fs \/ failAt = -1 THEN "none"
                                 ELSE IF failAt = -2 THEN "close" ELSE "read",
                          file |-> r.file, opened |-> r.opened, closes |-> r.closes]
              /\ UNCHANGED <<ini, fs, rd>>

SDSaveAction == SDSaveOn({"f", ""})

SDLoadAction == SDLoadOn({"f", ""}, 0 .. MaxSkip, 0 .. MaxSkip)

NextSDTable == SDNewAction \/ SDSetAction \/ SDGetAction

NextSDFile == SDNewAction \/ SDSetCell \/ SDSaveAction \/ SDLoadAction

(***************************************************************************)
(* SettingsINI                                                             *)
(***************************************************************************)
EmptyMap == [x \in {} |-> <<>>]

NewSettingsINI == [Filename |-> "", Headers |-> EmptyMap]

\* m with key k set to v (a Go map assignment m[k] = v).
Put(m, k, v) == [x \in DOMAIN m \cup {k} |-> IF x = k THEN v ELSE m[x]]

\* The characters strings.TrimSpace removes.
Space == {" ", "\t", NL, CR}

RECURSIVE TrimLeft(_)
TrimLeft(s) == IF s # <<>> /\ Head(s) \in Space THEN TrimLeft(Tail(s)) ELSE s

RECURSIVE TrimRight(_)
TrimRight(s) ==
    IF s # <<>> /\ Last(s) \in Space THEN TrimRight(SubSeq(s, 1, Len(s) - 1)) ELSE s

TrimSpace(s) == TrimRight(TrimLeft(s))

HeaderExists(Headers, header) == header \in DOMAIN Headers

ValueExists(Headers, header, name) ==
    header \in DOMAIN Headers /\ name \in DOMAIN Headers[header]

INIGet(Headers, header, name) ==
    IF header \notin DOMAIN Headers THEN [val |-> <<>>, found |-> FALSE]
    ELSE IF name \in DOMAIN Headers[header]
      THEN [val |-> Headers[header][name], found |-> TRUE]
      ELSE [val |-> <<>>, found |-> FALSE]

\* Add as it would be if the value were stored before the name is looked up.
INIAddOverwrites(Headers, header, name, value) ==
    LET H1 == IF header \in DOMAIN Headers THEN Headers ELSE Put(Headers, header, EmptyMap)
    IN [Headers |-> Put(H1, header, Put(H1[header], name, value)),
        err |-> IF name \in DOMAIN H1[header] THEN "Exists" ELSE "nil"]

\* Add(header, name, value): the header is created before the name is looked up.
INIAdd(Headers, header, name, value) ==
    LET H1 == IF header \in DOMAIN Headers THEN Headers ELSE Put(Headers, header, EmptyMap)
    IN IF name \in DOMAIN H1[header]
         THEN [Headers |-> H1, err |-> "Exists"]
         ELSE [Headers |-> Put(H1, header, Put(H1[header], name, value)), err |-> "nil"]

INISet(Headers, header, name, value) ==
    IF header \notin DOMAIN Headers THEN [Headers |-> Headers, err |-> "NotFound"]
    ELSE IF name \notin DOMAIN Headers[header] THEN [Headers |-> Headers, err |-> "NotFound"]
    ELSE [Headers |-> Put(Headers, header, Put(Headers[header], name, value)), err |-> "nil"]

\* The body of Load's loop as it would be if the first value of a key were kept.
INILoadLineKeepsFirst(buffer, cur, Headers) ==
    LET cur1 == IF cur.set THEN cur ELSE [set |-> TRUE, name |-> <<>>]
        H1 == IF cur.set THEN Headers ELSE Put(Headers, <<>>, EmptyMap)
        same == [Headers |-> Headers, cur |-> cur, err |-> "nil", closes |-> 0]
        fail == [Headers |-> Headers, cur |-> cur, err |-> "Parsing", closes |-> 1]
        Header(headerName) ==
            IF Len(headerName) = 0 THEN fail
            ELSE IF headerName \in DOMAIN Headers THEN fail
            ELSE [Headers |-> Put(Headers, headerName, EmptyMap),
                  cur |-> [set |-> TRUE, name |-> headerName], err |-> "nil",
                  closes |-> 0]
        Pair(name, value) ==
            IF Len(name) = 0 THEN fail
            ELSE IF Len(value) = 0 THEN fail
            ELSE IF name \in DOMAIN H1[cur1.name]
              THEN [Headers |-> H1, cur |-> cur1, err |-> "nil", closes |-> 0]
            ELSE [Headers |-> Put(H1, cur1.name, Put(H1[cur1.name], name, value)),
                  cur |-> cur1, err |-> "nil", closes |-> 0]
        Value(line, equal) ==
            IF equal = 0 THEN fail
            ELSE Pair(TrimSpace(SubSeq(line, 1, equal - 1)),
                      TrimSpace(SubSeq(line, equal + 1, Len(line))))
        Line(line) ==
            IF Len(line) = 0 THEN same
            ELSE IF Len(line) >= 2
              THEN IF line[1] = "/" /\ line[2] = "/" THEN same
                   ELSE IF line[1] = "["
                     THEN IF Last(line) = "]"
                            THEN Header(SubSeq(line, 2, Len(line) - 1))
                            ELSE fail
                   ELSE Value(line, Index(line, <<"=">>))
            ELSE same
    IN Line(TrimSpace(buffer))

\* What the body of Load's loop does with one line read: cur is the current
\* header ([set |-> FALSE] for the nil pointer).
INILoadLine(buffer, cur, Headers) ==
    LET cur1 == IF cur.set THEN cur ELSE [set |-> TRUE, name |-> <<>>]
        H1 == IF cur.set THEN Headers ELSE Put(Headers, <<>>, EmptyMap)
        same == [Headers |-> Headers, cur |-> cur, err |-> "nil", closes |-> 0]
        fail == [Headers |-> Headers, cur |-> cur, err |-> "Parsing", closes |-> 1]
        Header(headerName) ==
            IF Len(headerName) = 0 THEN fail
            ELSE IF headerName \in DOMAIN Headers THEN fail
            ELSE [Headers |-> Put(Headers, headerName, EmptyMap),
                  cur |-> [set |-> TRUE, name |-> headerName], err |-> "nil",
                  closes |-> 0]
        Pair(name, value) ==
            IF Len(name) = 0 THEN fail
            ELSE IF Len(value) = 0 THEN fail
            ELSE [Headers |-> Put(H1, cur1.name, Put(H1[cur1.name], name, value)),
                  cur |-> cur1, err |-> "nil", closes |-> 0]
        Value(line, equal) ==
            IF equal = 0 THEN fail
            ELSE Pair(TrimSpace(SubSeq(line, 1, equal - 1)),
                      TrimSpace(SubSeq(line, equal + 1, Len(line))))
        Line(line) ==
            IF Len(line) = 0 THEN same
            ELSE IF Len(line) >= 2
              THEN IF line[1] = "/" /\ line[2] = "/" THEN same
                   ELSE IF line[1] = "["
                     THEN IF Last(line) = "]"
                            THEN Header(SubSeq(line, 2, Len(line) - 1))
                            ELSE fail
                   ELSE Value(line, Index(line, <<"=">>))
            ELSE same
    IN Line(TrimSpace(buffer))

\* The scan loop as it would be if a read error returned without closing the
\* file.
RECURSIVE INILoadLoopLeaks(_, _, _, _, _, _)
INILoadLoopLeaks(content, pos, n, failAt, cur, Headers) ==
    LET Continue(r, l) ==
            IF l.err # "nil"
              THEN [Headers |-> l.Headers, err |-> l.err, closes |-> l.closes]
            ELSE IF r.eof THEN [Headers |-> l.Headers, err |-> "nil", closes |-> 0]
            ELSE INILoadLoopLeaks(content, r.pos, n + 1, failAt, l.cur, l.Headers)
        Line(r) == Continue(r, INILoadLine(r.buffer, cur, Headers))
    IN IF n = failAt THEN [Headers |-> Headers, err |-> "Loading", closes |-> 0]
       ELSE Line(ReadBufferedLine(content, pos, <<>>))

\* The scan loop of Load; the ReadBufferedLine call numbered failAt returns a
\* read error.
RECURSIVE INILoadLoop(_, _, _, _, _, _)
INILoadLoop(content, pos, n, failAt, cur, Headers) ==
    LET Continue(r, l) ==
            IF l.err # "nil"
              THEN [Headers |-> l.Headers, err |-> l.err, closes |-> l.closes]
            ELSE IF r.eof THEN [Headers |-> l.Headers, err |-> "nil", closes |-> 0]
            ELSE INILoadLoop(content, r.pos, n + 1, failAt, l.cur, l.Headers)
        Line(r) == Continue(r, INILoadLine(r.buffer, cur, Headers))
    IN IF n = failAt THEN [Headers |-> Headers, err |-> "Loading", closes |-> 1]
       ELSE Line(ReadBufferedLine(content, pos, <<>>))

\* Load as it would be if it did not store the filename it is given.
INILoadForgets(store, disk, filename, failAt, closeFails) ==
    LET name == ResolveName(filename, store.Filename)
        named == store
    IN IF filename = "" /\ store.Filename = ""
         THEN [store |-> store, err |-> "InvalidArgument",
               file |-> "", opened |-> FALSE, closes |-> 0]
       ELSE IF name \notin DOMAIN disk
         THEN [store |-> named, err |-> "Loading",
               file |-> name, opened |-> FALSE, closes |-> 0]
       ELSE LET r == INILoadLoop(disk[name].content, 1, 0, failAt,
                                 [set |-> FALSE, name |-> <<>>], EmptyMap)
            IN [store |-> [named EXCEPT !.Headers = r.Headers],
                err |-> IF r.err = "nil" /\ closeFails THEN "Loading" ELSE r.err,
                file |-> name, opened |-> TRUE,
                closes |-> IF r.err = "nil" THEN r.closes + 1 ELSE r.closes]

\* SettingsINI.Load(filename) on the files disk.
INILoad(store, disk, filename, failAt, closeFails) ==
    LET name == ResolveName(filename, store.Filename)
        named == [store EXCEPT !.Filename = name]
    IN IF filename = "" /\ store.Filename = ""
         THEN [store |-> store, err |-> "InvalidArgument",
               file |-> "", opened |-> FALSE, closes |-> 0]
       ELSE IF name \notin DOMAIN disk
         THEN [store |-> named, err |-> "Loading",
               file |-> name, opened |-> FALSE, closes |-> 0]
       ELSE LET r == INILoadLoop(disk[name].content, 1, 0, failAt,
                                 [set |-> FALSE, name |-> <<>>], EmptyMap)
            IN [store |-> [named EXCEPT !.Headers = r.Headers],
                err |-> IF r.err = "nil" /\ closeFails THEN "Loading" ELSE r.err,
                file |-> name, opened |-> TRUE,
                closes |-> IF r.err = "nil" THEN r.closes + 1 ELSE r.closes]

PairString(name, value) == name \o <<" ", "=", " ">> \o value \o <<NL>>

HeaderString(header) == <<"[">> \o header \o <<"]", NL>>

\* The orders a range over a map with the keys S may take.
Perms(S) ==
    {p \in [1 .. Cardinality(S) -> S] :
        \A i, j \in 1 .. Cardinality(S) : i # j => p[i] # p[j]}

\* The writes of one header's pairs, in the order keys.
PairWrites(Headers, header, keys) ==
    [i \in 1 .. Len(keys) |->
        [kind |-> "pair", header |-> header, name |-> keys[i],
         text |-> PairString(keys[i], Headers[header][keys[i]])]]

RECURSIVE NamedWrites(_, _, _)
NamedWrites(Headers, headerOrder, keyOrder) ==
    IF headerOrder = <<>> THEN <<>>
    ELSE LET h == Head(headerOrder)
             rest == NamedWrites(Headers, Tail(headerOrder), keyOrder)
         IN IF Len(h) # 0
              THEN <<[kind |-> "header", header |-> h, name |-> <<>>,
                      text |-> HeaderString(h)]>>
                   \o PairWrites(Headers, h, keyOrder[h]) \o rest
              ELSE rest

\* Save's writes as they would be if the headerless pairs were written where
\* the range over Headers meets them, not first.
RECURSIVE WritesInRange(_, _, _)
WritesInRange(Headers, headerOrder, keyOrder) ==
    IF headerOrder = <<>> THEN <<>>
    ELSE LET h == Head(headerOrder)
             rest == WritesInRange(Headers, Tail(headerOrder), keyOrder)
         IN IF Len(h) # 0
              THEN <<[kind |-> "header", header |-> h, name |-> <<>>,
                      text |-> HeaderString(h)]>>
                   \o PairWrites(Headers, h, keyOrder[h]) \o rest
              ELSE PairWrites(Headers, h, keyOrder[h]) \o rest

INISaveWritesInRange(Headers, headerOrder, keyOrder) ==
    WritesInRange(Headers, headerOrder, keyOrder)

\* The strings Save passes to file.WriteString, in order: headerOrder is the
\* order the range over Headers takes, keyOrder[h] the one over h's Values.
INISaveWrites(Headers, headerOrder, keyOrder) ==
    (IF <<>> \in DOMAIN Headers THEN PairWrites(Headers, <<>>, keyOrder[<<>>]) ELSE <<>>)
    \o NamedWrites(Headers, headerOrder, keyOrder)

WriteTexts(writes) == [i \in 1 .. Len(writes) |-> writes[i].text]

\* SettingsINI.Save(filename): the first failAt writes succeed, the next one
\* fails (failAt = number of writes: none fails).
INISave(store, disk, filename, headerOrder, keyOrder, failAt, closeFails) ==
    LET name == ResolveName(filename, store.Filename)
        writes == INISaveWrites(store.Headers, headerOrder, keyOrder)
        done == failAt >= Len(writes)
        made == SubSeq(writes, 1, IF done THEN Len(writes) ELSE failAt)
    IN IF filename = "" /\ store.Filename = ""
         THEN [store |-> store, disk |-> disk, err |-> "InvalidArgument", writes |-> <<>>,
               file |-> "", opened |-> FALSE, closes |-> 0]
       ELSE [store |-> store,
             disk |-> [f \in DOMAIN disk \cup {name} |->
                        IF f = name
                          THEN [content |-> Flatten(WriteTexts(made)),
                                by |-> IF done THEN "ini" ELSE "partial",
                                table |-> IF done THEN store.Headers ELSE EmptyMap]
                          ELSE disk[f]],
             err |-> IF done /\ ~closeFails THEN "nil" ELSE "Saving",
             writes |-> made, file |-> name, opened |-> TRUE, closes |-> 1]

(***************************************************************************)
(* Actions of the SettingsINI store.                                       *)
(***************************************************************************)
Sections == {<<>>, <<"A">>}
Names == {<<"x">>, <<"y">>}
Values == {<<"1">>, <<"2">>}

\* The Add calls of the runs that save files.
SaveAdds ==
    { <<<<>>, <<"x">>, <<"1">>>>, <<<<>>, <<"y">>, <<"2">>>>,
      <<<<"A">>, <<"x">>, <<"1">>>>, <<<<"B">>, <<"x">>, <<"1">>>> }

\* The Add calls of the runs that save and load files.
FileAdds ==
    { <<<<>>, <<"x">>, <<"1">>>>, <<<<"A">>, <<"x">>, <<"1">>>>, <<<<"A">>, <<"y">>, <<>>>> }

ININewAction ==
    /\ ini' = NewSettingsINI
    /\ last' = [op |-> "ININew", args |-> <<>>, err |-> "nil", out |-> <<>>,
                was |-> ini.Filename, io |-> "none"]
    /\ UNCHANGED <<sd, fs, rd>>

INIAddOn(Triples) ==
    \E t \in Triples :
      \E r \in {INIAdd(ini.Headers, t[1], t[2], t[3])} :
           /\ ini' = [ini EXCEPT !.Headers = r.Headers]
           /\ last' = [op |-> "INIAdd", args |-> t, err |-> r.err, out |-> <<>>,
                       was |-> ini.Filename, io |-> "none"]
           /\ UNCHANGED <<sd, fs, rd>>

INIAddAction == INIAddOn(Sections \X Names \X Values)

INIAddFile == INIAddOn(FileAdds)

INIAddSave == INIAddOn(SaveAdds)

INISetAction ==
    \E t \in Sections \X Names \X Values :
      \E r \in {INISet(ini.Headers, t[1], t[2], t[3])} :
           /\ ini' = [ini EXCEPT !.Headers = r.Headers]
           /\ last' = [op |-> "INISet", args |-> t, err |-> r.err, out |-> <<>>,
                       was |-> ini.Filename, io |-> "none"]
           /\ UNCHANGED <<sd, fs, rd>>

INIGetAction ==
    \E header \in Sections, name \in Names :
      \E r \in {INIGet(ini.Headers, header, name)} :
           /\ last' = [op |-> "INIGet", args |-> <<header, name>>, err |-> "nil",
                       out |-> <<r.val, r.found>>, was |-> ini.Filename, io |-> "none"]
           /\ UNCHANGED <<sd, ini, fs, rd>>

\* failAt = number of writes: no write fails; one more: file.Close fails.
INISaveOn(FileNameSet) ==
    \E filename \in FileNameSet,
       headerOrder \in Perms(DOMAIN ini.Headers),
       keyOrder \in [DOMAIN ini.Headers ->
                        UNION {Perms(DOMAIN ini.Headers[h]) : h \in DOMAIN ini.Headers}] :
      /\ \A h \in DOMAIN ini.Headers : keyOrder[h] \in Perms(DOMAIN ini.Headers[h])
      /\ \E n \in {Len(INISaveWrites(ini.Headers, headerOrder, keyOrder))} :
         \E failAt \in 0 .. (n + 1) :
         \E r \in {INISave(ini, fs, filename, headerOrder, keyOrder, failAt, failAt = n + 1)} :
              /\ ini' = r.store
              /\ fs' = r.disk
              /\ last' = [op |-> "INISave", args |-> <<filename>>, err |-> r.err,
                          out |-> r.writes, was |-> ini.Filename,
                          io |-> IF r.err = "InvalidArgument" \/ failAt = n THEN "none"
                                 ELSE IF failAt > n THEN "close" ELSE "write",
                          file |-> r.file, opened |-> r.opened, closes |-> r.closes]
              /\ UNCHANGED <<sd, rd>>

INISaveAction == INISaveOn({"f", ""})

\* failAt = -1: no read fails; failAt = -2: file.Close fails.
INILoadOn(FileNameSet) ==
    \E filename \in FileNameSet :
      LET name == ResolveName(filename, ini.Filename)
          reads == IF name \in DOMAIN fs THEN NumReads(fs[name].content, 1) ELSE 0
      IN \E failAt \in -2 .. (reads - 1) :
         \E r \in {INILoad(ini, fs, filename, failAt, failAt = -2)} :
              /\ ini' = r.store
              /\ last' = [op |-> "INILoad", args |-> <<filename>>, err |-> r.err,
                          out |-> <<name>>, was |-> ini.Filename,
                          io |-> IF name \notin DOMAIN fs \/ failAt = -1 THEN "none"
                                 ELSE IF failAt = -2 THEN "close" ELSE "read",
                          file |-> r.file, opened |-> r.opened, closes |-> r.closes]
              /\ UNCHANGED <<sd, fs, rd>>

INILoadAction == INILoadOn({"f", ""})

\* The lines of the files that were not written by Save.
SampleLines ==
    { <<"[", "A", "]">>, <<"x", "=", "1">>, <<" ", "y", " ", "=", " ", "2", CR>>,
      <<"z">>, <<"z", "z">>, <<"[", "A">>, <<"/", "/", "c">>, <<>> }

RECURSIVE JoinLines(_)
JoinLines(lines) ==
    IF lines = <<>> THEN <<>>
    ELSE IF Len(lines) = 1 THEN lines[1]
    ELSE lines[1] \o <<NL>> \o JoinLines(Tail(lines))

SampleFiles ==
    {JoinLines(lines) : lines \in UNION {[1 .. n -> SampleLines] : n \in 0 .. MaxLines}}

\* Some other program creates the file f.
CreateFileAction ==
    \E content \in SampleFiles :
        /\ "f" \notin DOMAIN fs
        /\ fs' = [n \in {"f"} |-> [content |-> content, by |-> "ext", table |-> EmptyMap]]
        /\ last' = [op |-> "CreateFile", args |-> <<"f">>, err |-> "nil", out |-> <<>>,
                    was |-> "", io |-> "none"]
        /\ UNCHANGED <<sd, ini, rd>>

NextINI == ININewAction \/ INIAddAction \/ INISetAction \/ INIGetAction

NextINIFile == ININewAction \/ INIAddFile \/ INISaveAction \/ INILoadAction

NextINISave == ININewAction \/ INIAddSave \/ INISaveAction

NextINIParse == CreateFileAction \/ INILoadAction \/ ININewAction

\* The calls that resolve a filename, on both stores.
NextNames ==
    \/ SDNewAction \/ SDSetOn({0}, {0}, {<<"a">>}) \/ SDSaveAction
    \/ SDLoadOn({"f", ""}, {0}, {0})
    \/ ININewAction \/ INIAddOn({<<<<>>, <<"x">>, <<"1">>>>}) \/ INISaveAction
    \/ INILoadAction

\* No stream is being read.
NoReader ==
    [content |-> <<>>, pos |-> 1, buffer |-> <<>>, lines |-> <<>>, eof |-> FALSE,
     err |-> "nil", pc |-> "idle"]

Init ==
    /\ sd = NewSpreadsheetDelim
    /\ ini = NewSettingsINI
    /\ fs = [f \in {} |-> <<>>]
    /\ last = [op |-> "New", args |-> <<>>, err |-> "nil", out |-> <<>>,
               was |-> "", io |-> "none"]
    /\ rd = NoReader

SpecSDTable == Init /\ [][NextSDTable]_vars

SpecSDFile == Init /\ [][NextSDFile]_vars

SpecINI == Init /\ [][NextINI]_vars

SpecINIFile == Init /\ [][NextINIFile]_vars

SpecINISave == Init /\ [][NextINISave]_vars

SpecINIParse == Init /\ [][NextINIParse]_vars

SpecNames == Init /\ [][NextNames]_vars
(***************************************************************************)
(* Properties of the SpreadsheetDelim store.                               *)
(***************************************************************************)
Max(a, b) == IF a >= b THEN a ELSE b

InBounds(Data, row, col) ==
    /\ row >= 0 /\ row < Len(Data)
    /\ col >= 0 /\ col < Len(Data[row + 1])

\* What an observer gets from Get at every coordinate the model uses.
SameGets(D1, D2) ==
    \A row \in 0 .. MaxDataRows, col \in 0 .. (MaxCol + 1) :
        SDGet(D1, row, col) = SDGet(D2, row, col)

\* The table a Load of the named file gives a table that holds nothing.
ParsedRows(name, skipCols, skipRows) ==
    SDLoadLoop(fs[name].content, 1, 0, -1, 0, skipCols, skipRows, NewSpreadsheetDelim).Data

\* C1: a table built by Set calls and saved is, once loaded with Load(f, 0, 0)
\* into a fresh SpreadsheetDelim, observationally equal to the table saved:
\* Get returns the same (value, found) at every row and col.
C1_RoundTrip ==
    [][(/\ last'.op = "SDLoad" /\ last'.err = "nil"
        /\ last'.args = <<"f", 0, 0>>
        /\ sd = NewSpreadsheetDelim
        /\ fs["f"].by = "sd")
       => SameGets(sd'.Data, fs["f"].table)]_vars

\* C3: after a successful Load the table consists of exactly the rows parsed
\* from the file, whatever it held before the call.
C3_LoadReplaces ==
    [][(last'.op = "SDLoad" /\ last'.err = "nil")
       => sd'.Data = ParsedRows(last'.out[1], last'.args[2], last'.args[3])]_vars

\* C7: Get(row, col) returns ("", false) at every coordinate out of bounds and
\* (Data[row][col], true) otherwise, completes normally in both cases, and
\* leaves the table as it was.
C7_GetTotal ==
    [][last'.op = "SDGet"
       => LET row == last'.args[1]
              col == last'.args[2]
          IN /\ last'.err = "nil"
             /\ sd' = sd
             /\ last'.out = IF InBounds(sd.Data, row, col)
                              THEN <<sd.Data[row + 1][col + 1], TRUE>>
                              ELSE <<<<>>, FALSE>>]_vars

\* C8: Set(row, col, v) with row >= 0 and col >= 0 returns nil; the table then
\* has max(old rows, row+1) rows, the target row max(old length, col+1) cells,
\* the target cell holds v, every other new cell is "", every other new row is
\* empty, and every other cell and row that existed is as it was.
C8_SetPost(D, E, row, col, v) ==
    LET oldLen == IF row < Len(D) THEN Len(D[row + 1]) ELSE 0
    IN /\ Len(E) = Max(Len(D), row + 1)
       /\ Len(E[row + 1]) = Max(oldLen, col + 1)
       /\ E[row + 1][col + 1] = v
       /\ \A c \in 1 .. Len(E[row + 1]) :
             c # col + 1 => E[row + 1][c] = IF c <= oldLen THEN D[row + 1][c] ELSE <<>>
       /\ \A r \in 1 .. Len(E) :
             r # row + 1 => E[r] = IF r <= Len(D) THEN D[r] ELSE <<>>

C8_SetExtends ==
    [][(last'.op = "SDSet" /\ last'.args[1] >= 0 /\ last'.args[2] >= 0)
       => /\ last'.err = "nil"
          /\ C8_SetPost(sd.Data, sd'.Data, last'.args[1], last'.args[2], last'.args[3])
          /\ sd'.Filename = sd.Filename /\ fs' = fs]_vars

\* Set(1, 1, "a") on the empty table: a row and a cell were created besides
\* the target.
C8_Witness ==
    /\ last.op = "SDSet" /\ last.err = "nil"
    /\ last.args = <<1, 1, <<"a">>>>
    /\ sd.Data = << <<>>, << <<>>, <<"a">> >> >>
(***************************************************************************)
(* Properties of the SettingsINI store.                                    *)
(***************************************************************************)
\* The header names and value names the model uses.
AllHeaders == {<<>>, <<"A">>, <<"B">>}
AllNames == {<<"x">>, <<"y">>, <<"z">>}

SameINIGets(H1, H2) ==
    \A header \in AllHeaders, name \in AllNames :
        INIGet(H1, header, name) = INIGet(H2, header, name)

\* The call that led to the state opened (or created) the file it names.
Opened(l) == ResolveName(l.args[1], l.was) \in DOMAIN fs

\* C2: a store built by successful Add/Set calls and saved is loaded by a
\* fresh SettingsINI without error, and Get then returns the same
\* (value, found) for every section and key as on the store saved, when the
\* disk fails no read and no close.
C2_INIRoundTrip ==
    [][(/\ last'.op = "INILoad" /\ last'.args = <<"f">>
        /\ ini = NewSettingsINI
        /\ "f" \in DOMAIN fs /\ fs["f"].by = "ini"
        /\ last'.io = "none")
       => /\ last'.err = "nil"
          /\ SameINIGets(ini'.Headers, fs["f"].table)]_vars

\* C4: when Load returns a ParseError (the file was opened), the store is left
\* empty: no header exists and Get finds nothing.
C4_NoPartialStore ==
    [][(last'.op = "INILoad" /\ last'.err = "Parsing" /\ Opened(last'))
       => /\ \A header \in AllHeaders : ~HeaderExists(ini'.Headers, header)
          /\ DOMAIN ini'.Headers = {}]_vars

\* The lines of a file, cut at the newlines.
LinesOf(content) == Split(content, <<NL>>)

\* A trimmed line that is not empty, no comment and no header, and holds no "=".
LacksEqual(line) ==
    LET t == TrimSpace(line)
    IN /\ Len(t) > 0
       /\ ~(Len(t) >= 2 /\ t[1] = "/" /\ t[2] = "/")
       /\ t[1] # "["
       /\ Index(t, <<"=">>) = 0

\* C5: a Load of a file with a line that, trimmed, is not empty, begins with
\* neither // nor [ and holds no "=" fails with a ParseError, whatever the
\* length of the line, when the disk fails no read and no close.
C5_EqualRequired ==
    [][(/\ last'.op = "INILoad" /\ Opened(last')
        /\ last'.io = "none"
        /\ \E i \in 1 .. Len(LinesOf(fs[last'.out[1]].content)) :
              LacksEqual(LinesOf(fs[last'.out[1]].content)[i]))
       => last'.err = "Parsing"]_vars

SaveOps == {"SDSave", "INISave"}
SDNameOps == {"SDSave", "SDLoad"}
ININameOps == {"INISave", "INILoad"}

\* A successful Save(f), f not empty, on a store that remembered no filename,
\* followed by a Save("") or Load("") on the same store.
SaveThenUnnamed ==
    /\ last.op \in SaveOps /\ last.err = "nil" /\ last.args[1] # "" /\ last.was = ""
    /\ \/ last.op = "SDSave" /\ last'.op \in SDNameOps
       \/ last.op = "INISave" /\ last'.op \in ININameOps
    /\ last'.args[1] = ""

\* C6 as stated: after a successful Save(f) on a store with no remembered
\* filename, a following Save("") or Load("") resolves to f and does not fail
\* with InvalidArgument.
C6_SaveRemembers ==
    [][SaveThenUnnamed
       => /\ last'.err # "InvalidArgument"
          /\ ResolveName(last'.args[1], last'.was) = last.args[1]]_vars

\* C6 as the code has it: Save leaves the remembered filename of both stores
\* as it was (only Load, given a filename, stores it), so that after a
\* successful Save(f) on a store with no remembered filename a following
\* Save("") or Load("") fails with InvalidArgument and changes neither store
\* nor file.
C6_SaveKeepsName ==
    [][/\ last'.op \in SaveOps
          => sd'.Filename = sd.Filename /\ ini'.Filename = ini.Filename
       /\ (last'.op = "INILoad" /\ last'.args[1] # "")
          => ini'.Filename = last'.args[1]
       /\ (last'.op = "SDLoad" /\ last'.args[1] # "")
          => sd'.Filename = last'.args[1]
       /\ SaveThenUnnamed
          => last'.err = "InvalidArgument" /\ sd' = sd /\ ini' = ini /\ fs' = fs]_vars

\* Load("") on a table whose Save("f") succeeded: InvalidArgument.
C6_Witness ==
    /\ last.op = "SDLoad" /\ last.args[1] = "" /\ last.err = "InvalidArgument"
    /\ "f" \in DOMAIN fs /\ fs["f"].by = "sd" /\ fs["f"].table = sd.Data
    /\ Len(sd.Data) > 0

HasPair(H, header, name) == header \in DOMAIN H /\ name \in DOMAIN H[header]

\* C9: Add on a pair that is present fails with AlreadyExists and leaves the
\* store as it was; Add on an absent pair succeeds, creates the section if
\* needed and changes no other pair.  Set on an absent section or key fails
\* with NotFound and creates nothing; Set on a present key overwrites only
\* that value.
C9_AddSet ==
    [][LET header == last'.args[1]
           name == last'.args[2]
           value == last'.args[3]
           H == ini.Headers
           G == ini'.Headers
           others(X, Y) ==
               \A h \in DOMAIN X : \A n \in DOMAIN X[h] :
                   <<h, n>> # <<header, name>> => HasPair(Y, h, n) /\ Y[h][n] = X[h][n]
       IN /\ (last'.op = "INIAdd" /\ HasPair(H, header, name))
             => last'.err = "Exists" /\ ini' = ini
          /\ (last'.op = "INIAdd" /\ ~HasPair(H, header, name))
             => /\ last'.err = "nil"
                /\ HasPair(G, header, name) /\ G[header][name] = value
                /\ DOMAIN G = DOMAIN H \cup {header}
                /\ others(H, G) /\ others(G, H)
          /\ (last'.op = "INISet" /\ ~HasPair(H, header, name))
             => last'.err = "NotFound" /\ ini' = ini
          /\ (last'.op = "INISet" /\ HasPair(H, header, name))
             => /\ last'.err = "nil"
                /\ G[header][name] = value
                /\ DOMAIN G = DOMAIN H
                /\ \A h \in DOMAIN H : DOMAIN G[h] = DOMAIN H[h]
                /\ others(H, G)]_vars

\* Add("A", "x", "2") failed on a store that holds A.x = 1, and A.x is still 1.
C9_Witness ==
    /\ last.op = "INIAdd" /\ last.err = "Exists"
    /\ last.args = <<<<"A">>, <<"x">>, <<"2">>>>
    /\ HasPair(ini.Headers, <<"A">>, <<"x">>)
    /\ ini.Headers[<<"A">>][<<"x">>] = <<"1">>

\* The writes of W that are the pairs of header.
PairIndexes(W, header) ==
    {i \in 1 .. Len(W) : W[i].kind = "pair" /\ W[i].header = header}

HeaderIndexes(W) == {i \in 1 .. Len(W) : W[i].kind = "header"}

\* C10: in the lines Save writes, every pair of the unnamed section comes
\* before the first header line, no header line is written for the unnamed
\* section, and the header line of each named section is followed at once by
\* exactly that section's pairs; a Save that succeeds writes every section.
C10_SavePost(H, W, complete) ==
    /\ \A i \in PairIndexes(W, <<>>) : \A j \in HeaderIndexes(W) : i < j
    /\ \A j \in HeaderIndexes(W) :
          /\ W[j].header # <<>>
          /\ W[j].header \in DOMAIN H
          /\ W[j].text = <<"[">> \o W[j].header \o <<"]", NL>>
          /\ \A k \in HeaderIndexes(W) : k # j => W[k].header # W[j].header
          /\ LET n == Cardinality(DOMAIN H[W[j].header])
                 run == {i \in (j + 1) .. Len(W) : i <= j + n}
             IN /\ \A i \in run : W[i].kind = "pair" /\ W[i].header = W[j].header
                /\ PairIndexes(W, W[j].header) \subseteq run
                /\ (complete \/ j + n < Len(W)) => Cardinality(run) = n
    /\ \A i \in 1 .. Len(W) :
          W[i].kind = "pair"
          => /\ HasPair(H, W[i].header, W[i].name)
             /\ W[i].text = W[i].name \o <<" ", "=", " ">> \o H[W[i].header][W[i].name] \o <<NL>>
             /\ \A k \in PairIndexes(W, W[i].header) : k # i => W[k].name # W[i].name
    /\ complete
       => /\ \A h \in DOMAIN H \ {<<>>} : \E j \in HeaderIndexes(W) : W[j].header = h
          /\ <<>> \in DOMAIN H => Cardinality(PairIndexes(W, <<>>)) = Cardinality(DOMAIN H[<<>>])

C10_UnnamedFirst ==
    [][(last'.op = "INISave" /\ last'.err # "InvalidArgument")
       => /\ C10_SavePost(ini.Headers, last'.out, last'.err = "nil" \/ fs'["f"].by = "ini")
          /\ fs'["f"].content = Flatten([i \in 1 .. Len(last'.out) |-> last'.out[i].text])]_vars

\* A Save that wrote the two headerless pairs, y first, then [B] and its
\* pair, then [A] and its pair.
C10_Witness ==
    /\ last.op = "INISave" /\ last.err = "nil"
    /\ Len(last.out) = 6
    /\ last.out[1].kind = "pair" /\ last.out[1].header = <<>> /\ last.out[1].name = <<"y">>
    /\ last.out[2].kind = "pair" /\ last.out[2].header = <<>>
    /\ last.out[3].kind = "header" /\ last.out[3].header = <<"B">>
    /\ last.out[5].kind = "header" /\ last.out[5].header = <<"A">>

(***************************************************************************)
(* Loads of files with header lines.                                       *)
(***************************************************************************)
\* The files of at most MaxLines lines drawn from Lines.
FilesOf(Lines) ==
    {JoinLines(lines) : lines \in UNION {[1 .. n -> Lines] : n \in 0 .. MaxLines}}

\* Some other program creates the file f with one of the contents Files.
CreateFileOn(Files) ==
    \E content \in Files :
        /\ "f" \notin DOMAIN fs
        /\ fs' = [n \in {"f"} |-> [content |-> content, by |-> "ext", table |-> EmptyMap]]
        /\ last' = [op |-> "CreateFile", args |-> <<"f">>, err |-> "nil", out |-> <<>>,
                    was |-> "", io |-> "none"]
        /\ UNCHANGED <<sd, ini, rd>>

HeaderLines ==
    { <<"[", "A", "]">>, <<"[", "B", "]">>, <<"[", "A">>, <<"[">>, <<"[", "]">>,
      <<"x", "=", "1">> }

CreateHeaderFile == CreateFileOn(FilesOf(HeaderLines))

NextINIHeaders == CreateHeaderFile \/ INILoadAction \/ ININewAction

SpecINIHeaders == Init /\ [][NextINIHeaders]_vars

\* The trimmed lines of the file a Load call read.
TrimmedLines(l) ==
    LET lines == LinesOf(fs[l.out[1]].content)
    IN [i \in 1 .. Len(lines) |-> TrimSpace(lines[i])]

\* A line that begins with [ and does not end with ].
Unterminated(t) == Len(t) > 0 /\ t[1] = "[" /\ Last(t) # "]"

\* A header line: [name], the name possibly empty.
IsHeader(t) == Len(t) >= 2 /\ t[1] = "[" /\ Last(t) = "]"

HeaderName(t) == SubSeq(t, 2, Len(t) - 1)

TableLines == { <<"a", ",", "b", ",", "c">>, <<"1", ",", "2">>, <<"a">>, <<>> }

CreateTableFile == CreateFileOn(FilesOf(TableLines))

\* The Load calls of these runs: on a table of at most one row.
SDLoadTable == Len(sd.Data) <= 1 /\ SDLoadOn({"f"}, 0 .. MaxSkip, 0 .. MaxSkip)

NextSDParse == CreateTableFile \/ SDLoadTable \/ SDNewAction

SpecSDParse == Init /\ [][NextSDParse]_vars

\* The lines of a stream: the text between the newlines, without the carriage
\* return that precedes a newline; what follows the last newline is a line.
LogicalLines(content) ==
    LET parts == Split(content, <<NL>>)
    IN [i \in 1 .. Len(parts) |->
          IF i < Len(parts) /\ parts[i] # <<>> /\ Last(parts[i]) = CR
            THEN SubSeq(parts[i], 1, Len(parts[i]) - 1)
            ELSE parts[i]]

\* The rows the lines give: the lines after the first skipRows that are not
\* empty and have more than skipCols cells, each without its first skipCols
\* cells, in the order of the file.
ExpectedRows(lines, delim, skipCols, skipRows) ==
    LET Keeps(i) ==
            /\ i > skipRows
            /\ lines[i] # <<>>
            /\ Len(Split(lines[i], delim)) > skipCols
        kept == SelectSeq([i \in 1 .. Len(lines) |-> i], Keeps)
    IN [k \in 1 .. Len(kept) |->
          SubSeq(Split(lines[kept[k]], delim), skipCols + 1,
                 Len(Split(lines[kept[k]], delim)))]

\* C12: a Load(f, skipCols, skipRows) without error appends to the table, in
\* file order, one row for each line that is not among the first skipRows
\* lines (empty ones counted), is not empty and has more than skipCols cells:
\* the line's cells from index skipCols on.
C12_LoadSkips ==
    [][(last'.op = "SDLoad" /\ last'.err = "nil")
       => sd'.Data = sd.Data \o ExpectedRows(LogicalLines(fs[last'.out[1]].content),
                                             sd.delimeter, last'.args[2],
                                             last'.args[3])]_vars

\* Load("f", 1, 0) of "a,b,c\n1,2\n" into an empty table: rows [b, c] and [2].
C12_Witness ==
    /\ last.op = "SDLoad" /\ last.args = <<"f", 1, 0>> /\ last.err = "nil"
    /\ fs["f"].content = <<"a", ",", "b", ",", "c", NL, "1", ",", "2", NL>>
    /\ sd.Data = << <<<<"b">>, <<"c">>>>, <<<<"2">>>> >>

(***************************************************************************)
(* Typed getters.  The strings converted are short: no conversion goes out *)
(* of the range of its type, and the value of a float is kept as the       *)
(* decimal read, <<digits, number of digits after the point>>, where Go    *)
(* rounds it to the nearest float32/float64.                               *)
(***************************************************************************)
Digits == {"0", "1", "2", "3", "4", "5", "6", "7", "8", "9"}

DigitValue(c) ==
    CASE c = "0" -> 0 [] c = "1" -> 1 [] c = "2" -> 2 [] c = "3" -> 3 [] c = "4" -> 4
      [] c = "5" -> 5 [] c = "6" -> 6 [] c = "7" -> 7 [] c = "8" -> 8 [] c = "9" -> 9

\* The digit loop of strconv.Atoi and strconv.ParseUint from character i on,
\* n the number read so far: a character that is no digit is a syntax error.
RECURSIVE ParseDigits(_, _, _)
ParseDigits(s, i, n) ==
    IF i > Len(s) THEN [val |-> n, err |-> "nil"]
    ELSE IF s[i] \notin Digits THEN [val |-> 0, err |-> "Syntax"]
    ELSE ParseDigits(s, i + 1, n * 10 + DigitValue(s[i]))

\* Atoi as it would be if a string without digits converted to 0.
AtoiEmptyIsZero(s) ==
    IF s # <<>> /\ s[1] \in {"+", "-"}
      THEN LET r == ParseDigits(s, 2, 0)
           IN [val |-> IF s[1] = "-" THEN 0 - r.val ELSE r.val, err |-> r.err]
      ELSE ParseDigits(s, 1, 0)

\* strconv.Atoi(s): an optional sign, then one digit at least.
Atoi(s) ==
    IF s = <<>> THEN [val |-> 0, err |-> "Syntax"]
    ELSE IF s[1] \in {"+", "-"}
      THEN IF Len(s) < 2 THEN [val |-> 0, err |-> "Syntax"]
           ELSE LET r == ParseDigits(s, 2, 0)
                IN [val |-> IF s[1] = "-" THEN 0 - r.val ELSE r.val, err |-> r.err]
    ELSE ParseDigits(s, 1, 0)

\* strconv.ParseUint(s, 10, strconv.IntSize): one digit at least, no sign.
ParseUint(s) ==
    IF s = <<>> THEN [val |-> 0, err |-> "Syntax"] ELSE ParseDigits(s, 1, 0)

\* The mantissa loop of strconv.ParseFloat from character i on: digits and one
\* point at most; it stops at the first other character.
RECURSIVE ReadFloat(_, _, _, _, _, _)
ReadFloat(s, i, sawdot, sawdigits, mantissa, frac) ==
    IF i > Len(s)
      THEN [ok |-> sawdigits, next |-> i, mantissa |-> mantissa, frac |-> frac]
    ELSE IF s[i] = "." /\ ~sawdot THEN ReadFloat(s, i + 1, TRUE, sawdigits, mantissa, frac)
    ELSE IF s[i] \in Digits
      THEN ReadFloat(s, i + 1, sawdot, TRUE, mantissa * 10 + DigitValue(s[i]),
                     IF sawdot THEN frac + 1 ELSE frac)
    ELSE [ok |-> sawdigits, next |-> i, mantissa |-> mantissa, frac |-> frac]

\* strconv.ParseFloat(s, bitSize) on strings without exponent, hexadecimal
\* prefix, underscore, "inf" and "nan": the whole string has to be read.
ParseFloat(s) ==
    LET signed == s # <<>> /\ s[1] \in {"+", "-"}
        Result(r) ==
            IF ~r.ok \/ r.next <= Len(s) THEN [val |-> <<0, 0>>, err |-> "Syntax"]
            ELSE [val |-> <<IF signed /\ s[1] = "-" THEN 0 - r.mantissa ELSE r.mantissa,
                            r.frac>>,
                  err |-> "nil"]
    IN Result(ReadFloat(s, IF signed THEN 2 ELSE 1, FALSE, FALSE, 0, 0))

Kinds == {"Int", "Uint", "Float32", "Float64"}

\* The conversion each kind of typed getter applies, and its zero value.
Convert(kind, str) ==
    CASE kind = "Int" -> Atoi(str)
      [] kind = "Uint" -> ParseUint(str)
      [] kind = "Float32" -> ParseFloat(str)
      [] kind = "Float64" -> ParseFloat(str)

Zero(kind) == IF kind \in {"Int", "Uint"} THEN 0 ELSE <<0, 0>>

\* GetInt/GetUint/GetFloat32/GetFloat64 of SettingsINI.
INIGetTyped(Headers, kind, header, name) ==
    LET Typed(g) ==
            IF g.found
              THEN [val |-> Convert(kind, g.val).val, found |-> TRUE,
                    err |-> Convert(kind, g.val).err]
              ELSE [val |-> Zero(kind), found |-> FALSE, err |-> "nil"]
    IN Typed(INIGet(Headers, header, name))

\* GetInt/GetUint/GetFloat32/GetFloat64 of SpreadsheetDelim; the Get they call
\* panics on a negative index.
SDGetTyped(Data, kind, row, col) ==
    LET Typed(g) ==
            IF g.panic THEN [val |-> Zero(kind), found |-> FALSE, err |-> "panic"]
            ELSE IF g.found
              THEN [val |-> Convert(kind, g.val).val, found |-> TRUE,
                    err |-> Convert(kind, g.val).err]
              ELSE [val |-> Zero(kind), found |-> FALSE, err |-> "nil"]
    IN Typed(SDGet(Data, row, col))

\* The strings the stores of these runs hold.
TypedValues == { <<"1">>, <<"-", "1">>, <<"1", ".", "5">>, <<"x">>, <<"-">>, <<>> }

SDSetTyped == SDSetOn({0}, {0}, TypedValues)

INIAddTyped == INIAddOn({<<<<>>, <<"x">>, v>> : v \in TypedValues})

SDGetTypedAction ==
    \E kind \in Kinds, row \in Rows, col \in -1 .. (MaxCol + 1) :
      \E r \in {SDGetTyped(sd.Data, kind, row, col)} :
        /\ last' = [op |-> "SDGetTyped", args |-> <<kind, row, col>>, err |-> r.err,
                    out |-> <<r.val, r.found>>, was |-> sd.Filename, io |-> "none"]
        /\ UNCHANGED <<sd, ini, fs, rd>>

INIGetTypedAction ==
    \E kind \in Kinds, header \in Sections, name \in Names :
      \E r \in {INIGetTyped(ini.Headers, kind, header, name)} :
        /\ last' = [op |-> "INIGetTyped", args |-> <<kind, header, name>>, err |-> r.err,
                    out |-> <<r.val, r.found>>, was |-> ini.Filename, io |-> "none"]
        /\ UNCHANGED <<sd, ini, fs, rd>>

NextTyped ==
    \/ SDNewAction \/ SDSetTyped \/ SDGetTypedAction
    \/ ININewAction \/ INIAddTyped \/ INIGetTypedAction

SpecTyped == Init /\ [][NextTyped]_vars

\* A decimal integer: an optional sign, then digits.
IsInt(s) ==
    \E k \in 0 .. 1 :
        /\ Len(s) > k
        /\ k = 1 => s[1] \in {"+", "-"}
        /\ \A i \in (k + 1) .. Len(s) : s[i] \in Digits

IsUint(s) == Len(s) > 0 /\ \A i \in 1 .. Len(s) : s[i] \in Digits

\* A decimal number: an optional sign, then digits with one point at most
\* among them, one digit at least.
IsFloat(s) ==
    \E k \in 0 .. 1 :
        /\ k = 1 => Len(s) > 0 /\ s[1] \in {"+", "-"}
        /\ \A i \in (k + 1) .. Len(s) : s[i] \in Digits \cup {"."}
        /\ Cardinality({i \in (k + 1) .. Len(s) : s[i] = "."}) <= 1
        /\ \E i \in (k + 1) .. Len(s) : s[i] \in Digits

IsNumber(kind, s) ==
    CASE kind = "Int" -> IsInt(s)
      [] kind = "Uint" -> IsUint(s)
      [] kind = "Float32" -> IsFloat(s)
      [] kind = "Float64" -> IsFloat(s)

\* The typed getter's answer found, err for what Get answers.
TypedAnswer(kind, g, l) ==
    /\ ~g.found => l.out = <<Zero(kind), FALSE>> /\ l.err = "nil"
    /\ g.found => /\ l.out[2] = TRUE
                  /\ ~IsNumber(kind, g.val) => l.err # "nil"
                  /\ IsNumber(kind, g.val) => l.err = "nil"

\* C13: a typed getter of either store returns the zero value, found=false
\* and no error when Get finds nothing, and found=true with the conversion's
\* error when Get finds a string, the error being non-nil whenever the string
\* is no number of the type; it changes no store.
C13_TypedGetters ==
    [][/\ last'.op \in {"SDGetTyped", "INIGetTyped"}
          => sd' = sd /\ ini' = ini /\ fs' = fs
       /\ last'.op = "INIGetTyped"
          => TypedAnswer(last'.args[1],
                         INIGet(ini.Headers, last'.args[2], last'.args[3]), last')
       /\ (last'.op = "SDGetTyped" /\ ~SDGet(sd.Data, last'.args[2], last'.args[3]).panic)
          => TypedAnswer(last'.args[1],
                         SDGet(sd.Data, last'.args[2], last'.args[3]), last')]_vars

\* GetInt on the stored string "x": found with a conversion error.
C13_Witness ==
    /\ last.op = "INIGetTyped" /\ last.args = <<"Int", <<>>, <<"x">>>>
    /\ INIGet(ini.Headers, <<>>, <<"x">>) = [val |-> <<"x">>, found |-> TRUE]
    /\ last.out[2] = TRUE /\ last.err = "Syntax"

(***************************************************************************)
(* Load and Save of both stores, on files they wrote and on files that     *)
(* give each parse error.                                                  *)
(***************************************************************************)
ErrorFiles ==
    { JoinLines(<<<<"[", "]">>>>), JoinLines(<<<<"[", "A">>>>),
      JoinLines(<<<<"z", "z">>>>), JoinLines(<<<<"=", "1">>>>),
      JoinLines(<<<<"x", "=">>>>),
      JoinLines(<<<<"[", "A", "]">>, <<"[", "A", "]">>>>) }

CreateErrorFile == CreateFileOn(ErrorFiles)

\* Load into a table of at most one row.
SDLoadShort == Len(sd.Data) <= 1 /\ SDLoadOn({"f", ""}, {0}, {0})

NextHandles ==
    \/ CreateErrorFile
    \/ SDNewAction \/ SDSetOn({0}, {0}, {<<"a">>}) \/ SDSaveAction \/ SDLoadShort
    \/ ININewAction \/ INIAddOn({<<<<>>, <<"x">>, <<"1">>>>}) \/ INISaveAction
    \/ INILoadAction

SpecHandles == Init /\ [][NextHandles]_vars

FileOps == {"SDLoad", "SDSave", "INILoad", "INISave"}

\* C14: when a Load or a Save of either store returns, the file it opened or
\* created has been closed by exactly one call of Close, whether it returns
\* nil, a read error, a ParseError, a write error or the error of Close; a
\* call that opened no file closed none.
C14_HandleClosed ==
    [][last'.op \in FileOps
       => /\ last'.opened => last'.closes = 1
          /\ ~last'.opened => last'.closes = 0]_vars

\* A Load that opened the file and returned a ParseError.
C14_Witness ==
    /\ last.op = "INILoad" /\ last.err = "Parsing"
    /\ last.opened /\ last.closes = 1

(***************************************************************************)
(* Load and Save of the two stores, each under a filename of its own.      *)
(***************************************************************************)
NextResolve ==
    \/ SDNewAction \/ SDSetOn({0}, {0}, {<<"a">>}) \/ SDSaveOn({"f", ""})
    \/ SDLoadOn({"f", ""}, {0}, {0})
    \/ ININewAction \/ INIAddOn({<<<<>>, <<"x">>, <<"1">>>>}) \/ INISaveOn({"g", ""})
    \/ INILoadOn({"g", ""})

SpecResolve == Init /\ [][NextResolve]_vars

LoadOps == {"SDLoad", "INILoad"}

\* The files other than name are as they were.
OthersKept(name) ==
    /\ DOMAIN fs' \ {name} = DOMAIN fs \ {name}
    /\ \A n \in DOMAIN fs \ {name} : fs'[n] = fs[n]

\* C15: Load("") and Save("") of either store work on the remembered filename
\* when there is one (Save creates that file and no other, Load needs that file
\* to exist and reads it), and fail with InvalidArgument when there is none,
\* opening no file and leaving both stores, their remembered filenames and
\* the files as they were; no call with a filename to work on fails with
\* InvalidArgument; Load(f), f not empty, makes f the remembered filename.
C15_NameResolution ==
    [][last'.op \in FileOps
       => /\ (last'.args[1] = "" /\ last'.was = "")
             => /\ last'.err = "InvalidArgument" /\ ~last'.opened
                /\ sd' = sd /\ ini' = ini /\ fs' = fs
          /\ (last'.args[1] = "" /\ last'.was # "")
             => /\ last'.err # "InvalidArgument"
                /\ last'.file = last'.was
                /\ sd'.Filename = sd.Filename /\ ini'.Filename = ini.Filename
          /\ last'.args[1] # ""
             => last'.err # "InvalidArgument" /\ last'.file = last'.args[1]
          /\ (last'.op \in SaveOps /\ last'.err # "InvalidArgument")
             => /\ last'.opened /\ last'.file \in DOMAIN fs'
                /\ OthersKept(last'.file)
          /\ (last'.op \in LoadOps /\ last'.err # "InvalidArgument")
             => /\ fs' = fs
                /\ last'.opened <=> last'.file \in DOMAIN fs
          /\ (last'.op = "SDLoad" /\ last'.err = "nil")
             => sd'.Data = sd.Data \o
                    ExpectedRows(LogicalLines(fs[last'.file].content), sd.delimeter,
                                 last'.args[2], last'.args[3])
          /\ (last'.op = "SDLoad" /\ last'.args[1] # "")
             => sd'.Filename = last'.args[1]
          /\ (last'.op = "INILoad" /\ last'.args[1] # "")
             => ini'.Filename = last'.args[1]]_vars

\* Save("") has written the file of the name that a failed Load("g")
\* remembered, beside a table that remembers the name of another file.
C15_Witness ==
    /\ last.op = "INISave" /\ last.args[1] = "" /\ last.was = "g"
    /\ last.err = "nil" /\ last.file = "g"
    /\ DOMAIN fs = {"g"} /\ fs["g"].by = "ini"
    /\ sd.Filename = "f"

(***************************************************************************)
(* Loads of settings files into a store that holds a pair already.         *)
(***************************************************************************)
StoreLines ==
    { <<"[", "A", "]">>, <<"[", "B", "]">>, <<"x", "=", "1">>,
      <<" ", "x", " ", "=", " ", "2", CR>>, <<"/", "/", "c">>, <<>> }

CreateStoreFile == CreateFileOn(FilesOf(StoreLines))

INIAddOld == INIAddOn({<<<<"C">>, <<"x">>, <<"9">>>>})

NextINIStore == CreateStoreFile \/ INIAddOld \/ INILoadAction \/ ININewAction

SpecINIStore == Init /\ [][NextINIStore]_vars

IsComment(t) == Len(t) >= 2 /\ t[1] = "/" /\ t[2] = "/"

\* A key/value line: not blank, no comment, no header, and holding an "=".
IsPair(t) ==
    /\ Len(t) >= 2 /\ ~IsComment(t) /\ t[1] # "["
    /\ \E i \in 1 .. Len(t) : t[i] = "="

FirstEqual(t) == CHOOSE i \in 1 .. Len(t) : t[i] = "=" /\ \A j \in 1 .. (i - 1) : t[j] # "="

KeyOf(t) == TrimSpace(SubSeq(t, 1, FirstEqual(t) - 1))

ValueOf(t) == TrimSpace(SubSeq(t, FirstEqual(t) + 1, Len(t)))

\* The name of the nearest header line before line i of T, "" when there is none.
SectionOf(T, i) ==
    LET hs == {j \in 1 .. (i - 1) : IsHeader(T[j])}
    IN IF hs = {} THEN <<>>
       ELSE HeaderName(T[CHOOSE j \in hs : \A k \in hs : k <= j])

\* The store the trimmed lines T determine.
ExpectedHeaders(T) ==
    LET pairs == {i \in 1 .. Len(T) : IsPair(T[i])}
        sections == {HeaderName(T[j]) : j \in {k \in 1 .. Len(T) : IsHeader(T[k])}}
                      \cup {SectionOf(T, i) : i \in pairs}
        In(h) == {i \in pairs : SectionOf(T, i) = h}
        LastOf(h, k) == CHOOSE i \in In(h) :
                           /\ KeyOf(T[i]) = k
                           /\ \A j \in In(h) : KeyOf(T[j]) = k => j <= i
    IN [h \in sections |->
          [k \in {KeyOf(T[i]) : i \in In(h)} |-> ValueOf(T[LastOf(h, k)])]]

\* C16: after a Load of a settings file without error the store is the one
\* the lines of the file determine, whatever it held before: its sections are
\* the headers of the file, and the unnamed section when a key/value line
\* stands before every header; each section holds the keys of the key/value
\* lines between its header and the next, each with the value of its last
\* such line; blank lines and comments give nothing.
C16_LoadedStore ==
    [][(last'.op = "INILoad" /\ last'.err = "nil")
       => ini'.Headers = ExpectedHeaders(TrimmedLines(last'))]_vars

\* A store that held [C] x = 9 has loaded "x=1", "[A]", " x = 2": x is 1 in
\* the unnamed section and 2 in A, and C is gone.
C16_Witness ==
    /\ last.op = "INILoad" /\ last.err = "nil"
    /\ DOMAIN ini.Headers = {<<>>, <<"A">>}
    /\ ini.Headers[<<>>] = [k \in {<<"x">>} |-> <<"1">>]
    /\ ini.Headers[<<"A">>] = [k \in {<<"x">>} |-> <<"2">>]

(***************************************************************************)
(* The scan loop of Load step by step: one ReadLine call at a time on a    *)
(* stream.  rd.lines collects the buffers of the ReadBufferedLine calls     *)
(* that returned eof = false; rd.buffer is the buffer of the call under    *)
(* way, at the end that of the call that returned eof = true.              *)
(***************************************************************************)
StreamBytes == {"a", "b", CR, NL}

Streams == UNION {[1 .. n -> StreamBytes] : n \in 0 .. MaxStream}

InitReader ==
    /\ sd = NewSpreadsheetDelim
    /\ ini = NewSettingsINI
    /\ fs = [f \in {} |-> <<>>]
    /\ last = [op |-> "New", args |-> <<>>, err |-> "nil", out |-> <<>>,
               was |-> "", io |-> "none"]
    /\ rd \in {[content |-> c, pos |-> 1, buffer |-> <<>>, lines |-> <<>>,
                eof |-> FALSE, err |-> "nil", pc |-> "loop"] : c \in Streams}

\* The head of the loop: for !eof { buffer = buffer[:0]; ReadBufferedLine(...)
LoadNextLine ==
    /\ rd.pc = "loop" /\ ~rd.eof
    /\ rd' = [rd EXCEPT !.buffer = <<>>, !.pc = "read"]
    /\ UNCHANGED <<sd, ini, fs, last>>

\* One turn of the loop of ReadBufferedLine whose ReadLine call returns data
\* or io.EOF.
ReadLineStep ==
    /\ rd.pc = "read"
    /\ \E r \in {ReadLine(rd.content, rd.pos)} :
         rd' = IF r.err = "EOF"
                 THEN [rd EXCEPT !.buffer = @ \o r.line, !.eof = TRUE, !.pc = "done"]
               ELSE IF r.isPrefix
                 THEN [rd EXCEPT !.buffer = @ \o r.line, !.pos = r.pos]
               ELSE [rd EXCEPT !.buffer = @ \o r.line, !.pos = r.pos,
                               !.lines = Append(@, rd.buffer \o r.line),
                               !.pc = "loop"]
    /\ UNCHANGED <<sd, ini, fs, last>>

\* The ReadLine call returns an error that is not io.EOF: ReadBufferedLine
\* returns it and Load returns a LoadError.
ReadLineFails ==
    /\ rd.pc = "read"
    /\ rd' = [rd EXCEPT !.err = "Loading", !.pc = "done"]
    /\ UNCHANGED <<sd, ini, fs, last>>

NextReader == LoadNextLine \/ ReadLineStep \/ ReadLineFails

SpecReader == InitReader /\ [][NextReader]_vars

\* A call that has begun runs on: the loop head and the ReadLine call are
\* steps of one goroutine.
SpecReaderFair == SpecReader /\ WF_vars(LoadNextLine) /\ WF_vars(ReadLineStep)

\* The lines of a stream: what stands between its terminators ("\n" or
\* "\r\n"), and what follows the last terminator when that is not empty.
StreamLines(content) ==
    LET parts == LogicalLines(content)
    IN IF Last(parts) = <<>> THEN SubSeq(parts, 1, Len(parts) - 1) ELSE parts

\* The lines handed out when the loop has ended: an empty buffer that comes
\* with the end-of-stream flag is no line.
Delivered == rd.lines \o (IF rd.buffer = <<>> THEN <<>> ELSE <<rd.buffer>>)

\* The lines handed out so far are the first lines of the stream.
DeliveredInOrder ==
    LET expected == StreamLines(rd.content)
    IN /\ Len(rd.lines) <= Len(expected)
       /\ \A i \in 1 .. Len(rd.lines) : rd.lines[i] = expected[i]

\* C17: on every stream, however ReadLine cuts its lines into fragments, the
\* scan loop ends; the lines it was handed are at every moment the first
\* lines of the stream, each once, whole and in order; when it ends without
\* a read error the end-of-stream flag is set and the buffers handed out,
\* that of the call that set the flag included when it is not empty, are all
\* the lines of the stream, the last one also when no terminator follows it;
\* a read error that is not end-of-stream ends the loop with a LoadError.
C17_ReaderDelivers ==
    /\ <>(rd.pc = "done")
    /\ [](rd.pc # "idle" => DeliveredInOrder)
    /\ []((rd.pc = "done" /\ rd.err = "nil")
            => /\ rd.eof
               /\ Delivered = StreamLines(rd.content))
    /\ []((rd.pc = "done" /\ rd.err # "nil") => rd.err = "Loading" /\ ~rd.eof)
    /\ [](rd.eof => rd.pc = "done")

\* The stream "b\naaa" has been read to its end: its last line, without
\* terminator, came as a full fragment and was handed out by the call that
\* met end-of-stream.
C17_Witness ==
    /\ rd.pc = "done" /\ rd.err = "nil" /\ rd.eof
    /\ rd.content = <<"b", NL, "a", "a", "a">>
    /\ rd.lines = <<<<"b">>>> /\ rd.buffer = <<"a", "a", "a">>
====
